---- MODULE Spec2Model ----
(***************************************************************************)
(* Salesforce data export (dcm-service): the offset page loop of           *)
(* SalesforceQueryService.getAllResultsWithPagination, the three remote    *)
(* operations of SalesforceApiClient it drives, and Application.run, which *)
(* writes the fetched batches through CsvWriter and hands the file to      *)
(* GoogleCloudStorageService.                                              *)
(*                                                                         *)
(* One export run is one thread of control.  Every await of the code is a  *)
(* step boundary; the code between two awaits runs to completion and is    *)
(* one action.                                                             *)
(***************************************************************************)
EXTENDS Integers, Sequences, FiniteSets, TLC

(***************************************************************************)
(* Bounds of the model.                                                    *)
(***************************************************************************)
\* Responses of one run that may deviate from the regular full page.
MaxOdd == 1
\* Size of the partial page the upstream returns when it returns a short one.
ShortPage == 10000

(***************************************************************************)
(* Program constants.                                                      *)
(***************************************************************************)
maxBatchSize == 25000
probeRowLimit == 1
pauseEvery == 10

\* Sizes of the upstream result set for which the upstream may answer
\* irregularly (short or empty pages, missing returnedRows, early done).
RowCounts == {0, 1, 25000, 25001, 60000}
\* Sizes of the long scenarios, which the upstream serves in regular full
\* pages: 200000 rows (8 pages), 250000 rows (10 pages, the tenth the last),
\* 275000 rows (11 pages, one pause) and 1000000 rows (40 pages).
ScenarioRowCounts == {200000, 250000, 275000, 1000000}

\* An absent (undefined) numeric field of a response.
NoCount == -1
\* An absent (undefined) string field of a response.
NoId == "none"
\* No response held.
NoResponse == [absent |-> TRUE]

\* HTTP statuses the remote query API answers with.
Statuses == {200, 401, 500}
ResponseOk_lenient(status) == status >= 200 /\ status <= 499

\* response.ok
ResponseOk(status) == status >= 200 /\ status <= 299

\* Field-descriptor collections a response may carry, as ordered field names.
MetaIds == {"mA", "mB"}
FieldNames(meta) == IF meta = "mA" THEN <<"id", "name">> ELSE <<"name", "id">>

(***************************************************************************)
(* JavaScript truthiness of an optional number / string, as used by `||`.  *)
(***************************************************************************)
TruthyNum(x) == x # NoCount /\ x # 0
TruthyStr(s) == s # NoId /\ s # ""
OrNum(a, b) == IF TruthyNum(a) THEN a ELSE b
OrStr(a, b) == IF TruthyStr(a) THEN a ELSE b
Min(a, b) == IF a <= b THEN a ELSE b

(***************************************************************************)
(* getAllResultsWithPagination: the pure parts.                            *)
(***************************************************************************)
\* A lookup that reads the top-level field only.
ExtractQueryId_topOnly(resp) == resp.queryId

\* queryId = initialResponse.queryId || initialResponse.status?.queryId
ExtractQueryId(resp) == OrStr(resp.queryId, resp.statusQueryId)

\* totalRowCount = status?.rowCount || rowCount || 0
ExtractTotalRowCount(resp) ==
    LET c == OrNum(resp.statusRowCount, resp.rowCount)
    IN  IF TruthyNum(c) THEN c ELSE 0

\* A loop test that is off by one.
LoopContinues_inclusive(offset, total) == offset <= total

\* while (currentOffset < totalRowCount)
LoopContinues(offset, total) == offset < total

\* batchSize = Math.min(maxBatchSize, totalRowCount - currentOffset)
BatchSize(total, offset) == Min(maxBatchSize, total - offset)

\* A count that trusts returnedRows alone.
ActualReturnedRows_noFallback(resp) ==
    IF TruthyNum(resp.returnedRows) THEN resp.returnedRows ELSE 0

\* actualReturnedRows = returnedRows || data?.length || 0
ActualReturnedRows(resp) ==
    LET c == OrNum(resp.returnedRows, resp.dataLen)
    IN  IF TruthyNum(c) THEN c ELSE 0

\* An offset that advances by the size asked for.
NextOffset_byRequested(offset, requested, resp) == offset + requested

\* currentOffset += actualReturnedRows
NextOffset(offset, requested, resp) == offset + ActualReturnedRows(resp)

PausesAfter_everyFifth(count) == count % 5 = 0

\* if (batchCount % 10 === 0) await sleep(100)
PausesAfter(count) == count % pauseEvery = 0

(***************************************************************************)
(* The remote query API, as far as the run can observe it.                 *)
(***************************************************************************)
\* Responses to the rowLimit=1 probe.  The handle may sit at the top level,
\* under status, in both places or nowhere; so may the total row count, and
\* a top-level rowCount beside status.rowCount counts the probe's one row.
ProbeCounts(n) ==
    {<<NoCount, NoCount>>, <<n, NoCount>>, <<NoCount, n>>, <<n, Min(n, probeRowLimit)>>}

ProbeResponses(n) ==
    { [queryId |-> q, statusQueryId |-> sq, statusRowCount |-> cs[1], rowCount |-> cs[2]] :
        q \in {NoId, "qTop"}, sq \in {NoId, "qStatus"}, cs \in ProbeCounts(n) }

\* Page sizes the upstream may answer a request for `limit` rows with: the
\* full page, a short page, or no rows at all.  rowLimit is an upper limit.
PageSizes(limit) == {limit, 0} \cup (IF ShortPage < limit THEN {ShortPage} ELSE {})

\* The regular answer at `offset`: a full page that reports its size and
\* says done exactly on the last page.
RegularPage(limit, offset, total) ==
    [returnedRows |-> limit, dataLen |-> limit,
     done |-> (offset + limit >= total), metadata |-> "mA"]

PageResponses(limit) ==
    { [returnedRows |-> (IF reports THEN r ELSE NoCount), dataLen |-> r,
       done |-> d, metadata |-> m] :
        r \in PageSizes(limit), reports \in BOOLEAN, d \in BOOLEAN, m \in MetaIds }

(***************************************************************************)
(* Application.run: the pure parts.                                        *)
(***************************************************************************)
\* Process configuration read at construction (ConfigService).
Configs ==
    [useOAuth : BOOLEAN, gcsUploadEnabled : BOOLEAN, gcsBucketName : {NoId, "bucket"}]

UploadWanted_enabledOnly(cfg) == cfg.gcsUploadEnabled

\* if (this.config.gcsUploadEnabled && this.config.gcsBucketName)
UploadWanted(cfg) == cfg.gcsUploadEnabled /\ TruthyStr(cfg.gcsBucketName)

\* CsvWriter.getHeadersFromMetadata(firstResponse.metadata)
getHeadersFromMetadata(meta) == FieldNames(meta)

ResultsAfterProbe_kept(resp) ==
    <<[returnedRows |-> 1, dataLen |-> 1, done |-> FALSE, metadata |-> "mA"]>>

\* const results: QueryResponse[] = []: the probe's response is not kept.
ResultsAfterProbe(resp) == <<>>

FileAfterOpen_append(contents) == contents

\* createWriteStream(path, { encoding: 'utf8' }): the default flag 'w'
\* truncates the file at the path, which is the same for every run of the
\* process.
FileAfterOpen(contents) == <<>>

AcquisitionsPerRequest_kept(kind) == IF kind = "postQuery" THEN 1 ELSE 0

\* postQuery and getQueryResults begin with `await this.getAccessToken()`.
AcquisitionsPerRequest(kind) == 1

AfterSend_noAwait(kind) == IF kind = "postQuery" THEN "probeWait" ELSE "fetch"

\* `await fetch(url, ...)`: the caller goes on when the response is there.
AfterSend(kind) == IF kind = "postQuery" THEN "probeWait" ELSE "fetchWait"

\* A catch block that ends the stream before rethrowing.
StreamAfterAbort_closing(stream) == IF stream = "open" THEN "ended" ELSE stream

\* The catch block of run logs and rethrows: it leaves the write stream alone.
StreamAfterAbort(stream) == stream

\* A catch block that rethrows the upload error.
AfterUpload_rethrow(uploadOk) == IF uploadOk THEN "done" ELSE "failed"

\* catch (gcsError) { log } : the run goes on to its success log.
AfterUpload(uploadOk) == "done"

\* The lines writeHeaders / writeDataToCsv append for the responses.
RECURSIVE DataGroups(_, _)
DataGroups(resps, i) ==
    IF i > Len(resps) THEN <<>>
    ELSE (IF resps[i].dataLen > 0
            THEN <<[kind |-> "rows", batch |-> i, count |-> resps[i].dataLen]>>
            ELSE <<>>) \o DataGroups(resps, i + 1)

RECURSIVE SumDataLen(_, _)
SumDataLen(resps, i) ==
    IF i > Len(resps) THEN 0 ELSE resps[i].dataLen + SumDataLen(resps, i + 1)

(***************************************************************************)
(* State.                                                                  *)
(***************************************************************************)
VARIABLES
    config,           \* Application.config
    upstreamRows,     \* size of the result set the remote system holds
    pc,               \* position of the run
    error,            \* the error run() threw, or NoError
    tokenCalls,       \* calls of apiClient.getAccessToken so far
    writeStream,      \* CsvWriter.writeStream: "null", "open" or "ended"
    file,             \* what has been written to the output file, in order
    requests,         \* remote query requests sent so far, in order
    inFlight,         \* TRUE while a remote query request awaits its response
    failedStatus,     \* status of the non-success query response, or 0
    lastStatus,       \* status of the last query response received, or 0
    flushed,          \* how many entries of `file` have reached the disk
    uploaded,         \* what the storage upload read from the disk
    initialResponse,  \* the probe's response
    queryId,          \* the handle extracted from the probe
    totalRowCount,
    currentOffset,
    batchCount,
    results,          \* responses pushed by the page loop
    pausedAfter,      \* batch counts after which the loop slept 100 ms
    plannerReturned,  \* getAllResultsWithPagination returned normally
    totalRowsWritten,
    uploads,          \* calls of gcsService.uploadFile so far
    uploadFailed,     \* the upload threw
    oddLeft           \* responses the upstream may still answer irregularly

\* A second run of the same process against the same upstream.
VARIABLES
    runNo,            \* 1 in the first run() of the process, 2 in the second
    firstFile,        \* the output file as the first run left it
    script,           \* what the upstream answered in the first run
    job,              \* per scheduled run: how far it is, its file, its end
    ticks,            \* times the cron schedule has fired
    diskLog           \* per output path: the runs that wrote to it, in order

schedVars == <<job, ticks, diskLog>>
rerunVars == <<runNo, firstFile, script, schedVars>>

\* SalesforceApiClient / SalesforceAuthService, as used by getAccessToken.
VARIABLES
    authMode,         \* "oauth": authService constructed; "static": it is null
    currentToken,     \* SalesforceAuthService.currentToken, NoId for null
    tokenExpiry,      \* SalesforceAuthService.tokenExpiry (ms), 0 initially
    validationCache,  \* SalesforceAuthService.validationCache
    now,              \* Date.now()
    call,             \* per caller: the getAccessToken call it has in progress
    callsLeft,        \* getAccessToken calls that may still begin
    ticksLeft,        \* clock steps that may still happen
    exchangesSent,    \* POSTs to the token endpoint so far
    probesSent,       \* validation GETs (userinfo or limits) so far
    prevReturned      \* token the last completed call resolved with

\* CsvWriter, as driven by Application.run after the planner returned.
VARIABLES
    allResponses,     \* the batches handed to the writer, explicit rows
    csvPc,            \* position of the write loop
    csvStream,        \* CsvWriter.writeStream: "null", "open" or "ended"
    headers,          \* the headers computed by run(), <<>> before that
    lines,            \* lines written to the stream, in order
    cursor            \* [batch, row] of the next row to write

authVars == <<authMode, currentToken, tokenExpiry, validationCache, now, call,
              callsLeft, ticksLeft, exchangesSent, probesSent, prevReturned>>
csvVars  == <<allResponses, csvPc, csvStream, headers, lines, cursor>>

vars == <<config, upstreamRows, pc, error, tokenCalls, writeStream, file, requests, inFlight,
          failedStatus, lastStatus, flushed, uploaded, initialResponse, queryId, totalRowCount, currentOffset,
          batchCount, results, pausedAfter, plannerReturned, totalRowsWritten,
          uploads, uploadFailed, oddLeft, rerunVars, authVars, csvVars>>

(***************************************************************************)
(* SalesforceAuthService: tokens, expiry, the validation cache.            *)
(***************************************************************************)
MaxCalls == 3
MaxTicks == 3

VALIDATION_CACHE_TTL == 300000
TokenLifetime == 7200000

\* Steps of the clock, in ms: they add up to the cache TTL and to the token
\* lifetime exactly, and to one ms short of each.
TickSteps == {1, 299999, 7199999}

\* Tokens the token endpoint may issue, and the token of SF_ACCESS_TOKEN.
Tokens == {"pA-1", "pA-2", "pB-1"}
StaticToken == "pS-1"

\* this.currentToken.substring(0, 50): "pA-1" and "pA-2" stand for two tokens
\* with the same first 50 characters.
CacheKey(token) ==
    CASE token \in {"pA-1", "pA-2"} -> "pA"
      [] token = "pB-1" -> "pB"
      [] OTHER -> "pS"

Keys == {CacheKey(t) : t \in Tokens}

NoEntry == [isValid |-> FALSE, timestamp |-> -1]
EmptyCache == [k \in Keys |-> NoEntry]

Callers == {1, 2}

isTokenExpired(token, expiry, t) ==
    \/ token = NoId
    \/ expiry = 0
    \/ t >= expiry

CacheFresh_never(entry, t) ==
    FALSE

CacheFresh_inclusive(entry, t) ==
    /\ entry # NoEntry
    /\ t - entry.timestamp <= VALIDATION_CACHE_TTL

\* isTokenValid: `cached && (Date.now() - cached.timestamp) < TTL`.
CacheFresh(entry, t) ==
    /\ entry # NoEntry
    /\ t - entry.timestamp < VALIDATION_CACHE_TTL

clearCachedToken_expiryKept ==
    [token |-> NoId, expiry |-> TokenLifetime, cache |-> EmptyCache]

\* The state clearCachedToken leaves.
clearCachedToken == [token |-> NoId, expiry |-> 0, cache |-> EmptyCache]

\* issued_at of a token response: the server's clock, level with or behind
\* the client's.
IssuedAts(t) == {t, t - 1}

ExpiryAfterExchange_fromIssuedAt(t, issuedAt) == issuedAt + TokenLifetime

\* this.tokenExpiry = Date.now() + (2 * 60 * 60 * 1000)
ExpiryAfterExchange(t, issuedAt) == t + TokenLifetime

StaticOutcome_noProbe(token, probeOk) ==
    IF TruthyStr(token) THEN "return" ELSE "throw"

\* SalesforceApiClient.getAccessToken without an authService.
StaticOutcome(token, probeOk) ==
    IF TruthyStr(token)
      THEN IF probeOk THEN "return" ELSE "throw"
      ELSE "throw"

\* What the token endpoint and this service saw when a call sent its POST.
NoSnap == [token |-> NoId, expiry |-> 0, cached |-> {}]
Snapshot(token, expiry, cache) ==
    [token |-> token, expiry |-> expiry, cached |-> {k \in Keys : cache[k] # NoEntry}]

IdleCall ==
    [pc |-> "idle", tok |-> NoId, startTok |-> NoId, startExpiry |-> 0,
     startValid |-> FALSE, valid |-> "none", exchBefore |-> 0, snap |-> NoSnap,
     ret |-> NoId, path |-> "none"]

AuthStart ==
    /\ currentToken = NoId
    /\ tokenExpiry = 0
    /\ validationCache = EmptyCache
    /\ now = 0
    /\ call = [c \in Callers |-> IdleCall]
    /\ exchangesSent = 0
    /\ probesSent = 0
    /\ prevReturned = NoId

AuthUnused ==
    /\ authMode = "unused"
    /\ callsLeft = 0
    /\ ticksLeft = 0
    /\ AuthStart

CsvUnused ==
    /\ allResponses = <<>>
    /\ csvPc = "unused"
    /\ csvStream = "null"
    /\ headers = <<>>
    /\ lines = <<>>
    /\ cursor = [batch |-> 0, row |-> 0]

NoError == [kind |-> "none", status |-> 0]

NoScript == [probe |-> NoResponse, results |-> <<>>, requests |-> <<>>]

\* Runs the schedule starts.
MaxRuns == 3
Runs == 1..MaxRuns

\* Times a ConfigService may be constructed or a run started at, in ticks
\* of the schedule; an output path is named after such a time.
Times == 0..MaxRuns

NoPath == -1
NoJob == [pc |-> "idle", path |-> NoPath, result |-> "none", sched |-> "none"]

\* The process has called run() once at most.
FirstRun ==
    /\ runNo = 1
    /\ firstFile = <<>>
    /\ script = NoScript
    /\ job = [r \in Runs |-> NoJob]
    /\ ticks = 0
    /\ diskLog = [p \in Times |-> <<>>]

Init ==
    /\ config \in Configs
    /\ upstreamRows \in RowCounts \cup ScenarioRowCounts
    /\ pc = "start"
    /\ error = NoError
    /\ tokenCalls = 0
    /\ writeStream = "null"
    /\ file = <<>>
    /\ requests = <<>>
    /\ inFlight = FALSE
    /\ failedStatus = 0
    /\ lastStatus = 0
    /\ flushed = 0
    /\ uploaded = <<>>
    /\ initialResponse = NoResponse
    /\ queryId = NoId
    /\ totalRowCount = 0
    /\ currentOffset = 0
    /\ batchCount = 0
    /\ results = <<>>
    /\ pausedAfter = {}
    /\ plannerReturned = FALSE
    /\ totalRowsWritten = 0
    /\ uploads = 0
    /\ uploadFailed = FALSE
    /\ oddLeft = IF upstreamRows \in ScenarioRowCounts THEN 0 ELSE MaxOdd
    /\ FirstRun
    /\ AuthUnused
    /\ CsvUnused

exportVars == <<config, upstreamRows, pc, error, tokenCalls, writeStream, file, requests,
                inFlight, failedStatus, lastStatus, flushed, uploaded, initialResponse, queryId, totalRowCount,
                currentOffset, batchCount, results, pausedAfter, plannerReturned,
                totalRowsWritten, uploads, uploadFailed, oddLeft, rerunVars>>

\* No export run: the state of the run's variables in the specifications of
\* the token service and of the writer.
ExportUnused ==
    /\ config = [useOAuth |-> FALSE, gcsUploadEnabled |-> FALSE, gcsBucketName |-> NoId]
    /\ upstreamRows = 0
    /\ pc = "unused"
    /\ error = NoError
    /\ tokenCalls = 0
    /\ writeStream = "null"
    /\ file = <<>>
    /\ requests = <<>>
    /\ inFlight = FALSE
    /\ failedStatus = 0
    /\ lastStatus = 0
    /\ flushed = 0
    /\ uploaded = <<>>
    /\ initialResponse = NoResponse
    /\ queryId = NoId
    /\ totalRowCount = 0
    /\ currentOffset = 0
    /\ batchCount = 0
    /\ results = <<>>
    /\ pausedAfter = {}
    /\ plannerReturned = FALSE
    /\ totalRowsWritten = 0
    /\ uploads = 0
    /\ uploadFailed = FALSE
    /\ oddLeft = 0
    /\ FirstRun

writerVars  == <<writeStream, file, totalRowsWritten>>
plannerVars == <<initialResponse, queryId, totalRowCount, currentOffset,
                 batchCount, results, pausedAfter, plannerReturned>>
uploadVars  == <<uploads, uploadFailed, uploaded>>

\* run() throws: the catch block logs and rethrows.
Abort(kind, status) ==
    /\ pc' = "failed"
    /\ error' = [kind |-> kind, status |-> status]
    /\ writeStream' = StreamAfterAbort(writeStream)

(***************************************************************************)
(* Application.run, up to the probe.                                       *)
(***************************************************************************)
\* run(): with OAuth, acquire a token first; then new CsvWriter + open().
StartRun ==
    /\ pc = "start"
    /\ \E tokenOk \in BOOLEAN :
         IF config.useOAuth
           THEN /\ tokenCalls' = tokenCalls + 1
                /\ IF tokenOk
                     THEN /\ writeStream' = "open"
                          /\ file' = FileAfterOpen(file)
                          /\ pc' = "probe"
                          /\ error' = error
                     ELSE Abort("AuthError", 0) /\ file' = file
           ELSE /\ tokenOk
                /\ tokenCalls' = tokenCalls
                /\ writeStream' = "open"
                /\ file' = FileAfterOpen(file)
                /\ pc' = "probe"
                /\ error' = error
    /\ flushed' = IF pc' = "probe" THEN Len(file') ELSE flushed
    /\ UNCHANGED <<authVars, csvVars, rerunVars, config, upstreamRows, totalRowsWritten,
                   requests, inFlight, failedStatus, lastStatus, plannerVars, uploadVars, oddLeft>>

\* postQuery(sql, 1): acquire the credential, then send the POST.
ProbeRequest ==
    /\ pc = "probe"
    /\ tokenCalls' = tokenCalls + AcquisitionsPerRequest("postQuery")
    /\ \E tokenOk \in BOOLEAN :
         IF tokenOk
           THEN /\ requests' = Append(requests,
                        [kind |-> "postQuery", queryId |-> NoId, offset |-> 0,
                         rowLimit |-> probeRowLimit])
                /\ inFlight' = TRUE
                /\ pc' = AfterSend("postQuery")
                /\ UNCHANGED <<error, writeStream>>
           ELSE /\ Abort("AuthError", 0)
                /\ UNCHANGED <<requests, inFlight>>
    /\ UNCHANGED <<authVars, csvVars, rerunVars, config, upstreamRows, flushed, file, totalRowsWritten, failedStatus, lastStatus, plannerVars,
                   uploadVars, oddLeft>>

\* The probe's response arrives: postQuery returns it or throws, and
\* getAllResultsWithPagination extracts the handle and the total row count
\* and evaluates the loop condition for the first time.
ProbeResponse ==
    /\ pc = "probeWait"
    /\ inFlight' = FALSE
    /\ \E status \in Statuses :
         /\ lastStatus' = status
         /\ IF ~ResponseOk(status)
           THEN /\ failedStatus' = status
                /\ Abort("QueryError", status)
                /\ UNCHANGED plannerVars
           ELSE \E resp \in ProbeResponses(upstreamRows) :
                /\ initialResponse' = resp
                /\ failedStatus' = failedStatus
                /\ IF ~TruthyStr(ExtractQueryId(resp))
                     THEN /\ Abort("NoQueryId", 0)
                          /\ UNCHANGED <<queryId, totalRowCount, currentOffset,
                                         batchCount, results, pausedAfter,
                                         plannerReturned>>
                     ELSE /\ queryId' = ExtractQueryId(resp)
                          /\ totalRowCount' = ExtractTotalRowCount(resp)
                          /\ currentOffset' = 0
                          /\ batchCount' = 0
                          /\ results' = ResultsAfterProbe(resp)
                          /\ pausedAfter' = {}
                          /\ IF LoopContinues(0, ExtractTotalRowCount(resp))
                               THEN pc' = "fetch" /\ plannerReturned' = FALSE
                               ELSE pc' = "returned" /\ plannerReturned' = TRUE
                          /\ UNCHANGED <<error, writeStream>>
    /\ UNCHANGED <<authVars, csvVars, rerunVars, config, upstreamRows, flushed, tokenCalls, file, totalRowsWritten, requests,
                   uploadVars, oddLeft>>

(***************************************************************************)
(* The offset page loop.                                                   *)
(***************************************************************************)
\* One iteration up to its await: batchCount++, the batch size, and
\* getQueryResults(queryId, currentOffset, batchSize) up to its fetch().
FetchRequest ==
    /\ pc = "fetch"
    /\ batchCount' = batchCount + 1
    /\ tokenCalls' = tokenCalls + AcquisitionsPerRequest("getQueryResults")
    /\ \E tokenOk \in BOOLEAN :
         IF tokenOk
           THEN /\ requests' = Append(requests,
                        [kind |-> "getQueryResults", queryId |-> queryId,
                         offset |-> currentOffset,
                         rowLimit |-> BatchSize(totalRowCount, currentOffset)])
                /\ inFlight' = TRUE
                /\ pc' = AfterSend("getQueryResults")
                /\ UNCHANGED <<error, writeStream>>
           ELSE /\ Abort("AuthError", 0)
                /\ UNCHANGED <<requests, inFlight>>
    /\ UNCHANGED <<authVars, csvVars, rerunVars, config, upstreamRows, flushed, file, totalRowsWritten, failedStatus, lastStatus, initialResponse,
                   queryId, totalRowCount, currentOffset, results, pausedAfter,
                   plannerReturned, uploadVars, oddLeft>>

\* The rest of the iteration: the response is pushed, the offset advances by
\* the rows actually returned, the loop breaks or pauses and re-tests.
FetchResponse ==
    /\ pc = "fetchWait"
    /\ inFlight' = FALSE
    /\ \E status \in Statuses :
         /\ lastStatus' = status
         /\ IF ~ResponseOk(status)
           THEN /\ failedStatus' = status
                /\ Abort("QueryError", status)
                /\ UNCHANGED <<results, currentOffset, pausedAfter, plannerReturned,
                               oddLeft>>
           ELSE LET req == requests[Len(requests)] IN
                \E resp \in PageResponses(req.rowLimit) :
                LET regular == resp = RegularPage(req.rowLimit, req.offset, totalRowCount)
                    newOffset == NextOffset(currentOffset, req.rowLimit, resp)
                IN  /\ regular \/ oddLeft > 0
                    /\ oddLeft' = IF regular THEN oddLeft ELSE oddLeft - 1
                    /\ failedStatus' = failedStatus
                    /\ results' = Append(results, resp)
                    /\ currentOffset' = newOffset
                    /\ IF newOffset >= totalRowCount
                         THEN /\ pc' = "returned"
                              /\ plannerReturned' = TRUE
                              /\ pausedAfter' = pausedAfter
                         ELSE /\ pausedAfter' = IF PausesAfter(batchCount)
                                                  THEN pausedAfter \cup {batchCount}
                                                  ELSE pausedAfter
                              /\ IF LoopContinues(newOffset, totalRowCount)
                                   THEN pc' = "fetch" /\ plannerReturned' = FALSE
                                   ELSE pc' = "returned" /\ plannerReturned' = TRUE
                    /\ UNCHANGED <<error, writeStream>>
    /\ UNCHANGED <<authVars, csvVars, rerunVars, config, upstreamRows, flushed, tokenCalls, file, totalRowsWritten, requests,
                   initialResponse, queryId, totalRowCount, batchCount, uploadVars>>

(***************************************************************************)
(* Application.run, after the planner returned.                            *)
(***************************************************************************)
\* From the return of getAllResultsWithPagination to csvWriter.close(): the
\* empty check, the header, every batch, close.  No await in between.
WriteAll ==
    /\ pc = "returned"
    /\ IF Len(results) = 0
         THEN /\ Abort("NoData", 0)
              /\ UNCHANGED <<file, totalRowsWritten>>
         ELSE /\ file' = file
                          \o <<[kind |-> "header", batch |-> 0,
                                fields |-> getHeadersFromMetadata(results[1].metadata)]>>
                          \o DataGroups(results, 1)
              /\ totalRowsWritten' = SumDataLen(results, 1)
              /\ writeStream' = "ended"
              /\ error' = error
              /\ pc' = IF UploadWanted(config) THEN "upload" ELSE "done"
    /\ UNCHANGED <<authVars, csvVars, rerunVars, config, upstreamRows, flushed, tokenCalls, requests, inFlight, failedStatus, lastStatus, plannerVars,
                   uploadVars, oddLeft>>

\* gcsService.uploadFile inside its own try/catch, then the success log.
Upload ==
    /\ pc = "upload"
    /\ uploads' = uploads + 1
    /\ \E uploadOk \in BOOLEAN :
         /\ uploadFailed' = ~uploadOk
         /\ uploaded' = IF uploadOk THEN SubSeq(file, 1, flushed) ELSE uploaded
         /\ IF AfterUpload(uploadOk) = "done"
              THEN pc' = "done" /\ UNCHANGED <<error, writeStream>>
              ELSE Abort("UploadError", 0)
    /\ UNCHANGED <<authVars, csvVars, rerunVars, config, upstreamRows, flushed, tokenCalls, file, totalRowsWritten, requests, inFlight,
                   failedStatus, lastStatus, plannerVars, oddLeft>>

\* The write stream hands the next of its buffered lines to the disk.
Flush ==
    /\ flushed < Len(file)
    /\ flushed' = flushed + 1
    /\ UNCHANGED <<authVars, csvVars, rerunVars, config, upstreamRows, pc, error,
                   tokenCalls, writeStream, file, totalRowsWritten, requests, inFlight,
                   failedStatus, lastStatus, plannerVars, uploadVars, oddLeft>>

Next ==
    \/ StartRun
    \/ ProbeRequest
    \/ ProbeResponse
    \/ FetchRequest
    \/ FetchResponse
    \/ WriteAll
    \/ Upload
    \/ Flush

Spec == Init /\ [][Next]_vars

(***************************************************************************)
(* Two runs of one process, the second against an upstream that answers    *)
(* as it did in the first.                                                 *)
(***************************************************************************)
\* No two requests of the run were the same: the answers it got are those of
\* an upstream that answers a request by its content alone.
RequestsDistinct ==
    Cardinality({requests[i] : i \in 1..Len(requests)}) = Len(requests)

\* The run, if it is the second, has seen the answers of the first and no
\* failure the first did not see.
FollowsScript ==
    runNo = 2 =>
      /\ error = NoError
      /\ failedStatus = 0
      /\ initialResponse \in {NoResponse, script.probe}
      /\ Len(results) <= Len(script.results)
      /\ results = SubSeq(script.results, 1, Len(results))

\* run() has completed; the scheduler calls it again on the same Application.
Rerun ==
    /\ pc = "done"
    /\ runNo = 1
    /\ RequestsDistinct
    /\ flushed = Len(file)
    /\ runNo' = 2
    /\ firstFile' = file
    /\ script' = [probe |-> initialResponse, results |-> results, requests |-> requests]
    /\ pc' = "start"
    /\ tokenCalls' = 0
    /\ requests' = <<>>
    /\ initialResponse' = NoResponse
    /\ queryId' = NoId
    /\ totalRowCount' = 0
    /\ currentOffset' = 0
    /\ batchCount' = 0
    /\ results' = <<>>
    /\ pausedAfter' = {}
    /\ plannerReturned' = FALSE
    /\ totalRowsWritten' = 0
    /\ writeStream' = "null"
    /\ oddLeft' = IF upstreamRows \in ScenarioRowCounts THEN 0 ELSE MaxOdd
    /\ lastStatus' = 0
    /\ UNCHANGED <<schedVars, config, upstreamRows, error, file, flushed, inFlight, failedStatus, uploadVars,
                   authVars, csvVars>>

InitTwice ==
    /\ Init
    /\ ~config.gcsUploadEnabled
    /\ config.gcsBucketName = NoId

NextTwice ==
    \/ StartRun /\ FollowsScript'
    \/ ProbeRequest /\ FollowsScript'
    \/ ProbeResponse /\ FollowsScript'
    \/ FetchRequest /\ FollowsScript'
    \/ FetchResponse /\ FollowsScript'
    \/ WriteAll /\ FollowsScript'
    \/ Flush
    \/ Rerun

SpecTwice == InitTwice /\ [][NextTwice]_vars

(***************************************************************************)
(* Scheduled mode: the cron job calls runScheduled on one Application      *)
(* every 30 minutes.  A run is followed here through what it does to its   *)
(* output file: run() awaits the token, opens the file, awaits the         *)
(* planner, writes and closes, awaits the upload, returns or throws.       *)
(***************************************************************************)
\* config.outputCsvPath is computed once, when the ConfigService singleton
\* is constructed; every run of the process reads that value.
OutputCsvPath(constructedAt, startedAt) == constructedAt

RunScheduledOutcome_rethrow(result) ==
    IF result = "threw" THEN "threw" ELSE "completed"

\* runScheduled: try { await this.run() } catch { log }.
RunScheduledOutcome(result) == "completed"

oneRun == <<config, upstreamRows, pc, error, tokenCalls, writeStream, file, requests,
            inFlight, failedStatus, lastStatus, flushed, uploaded, initialResponse,
            queryId, totalRowCount, currentOffset, batchCount, results, pausedAfter,
            plannerReturned, totalRowsWritten, uploads, uploadFailed, oddLeft>>
notSched == <<authVars, csvVars, runNo, firstFile, script, oneRun>>

\* No callback of the schedule has thrown.
ScheduleAlive == \A r \in Runs : job[r].sched # "threw"

\* The schedule fires: onTick calls app.runScheduled(), whatever the runs
\* before it are doing.
CronTick ==
    /\ ticks < MaxRuns
    /\ ScheduleAlive
    /\ ticks' = ticks + 1
    /\ job' = [job EXCEPT ![ticks + 1] = [NoJob EXCEPT !.pc = "auth"]]
    /\ UNCHANGED <<diskLog, notSched>>

\* run() gets its token, constructs the CsvWriter and opens the file.
RunOpens(r) ==
    /\ job[r].pc = "auth"
    /\ LET path == OutputCsvPath(0, r)
       IN  /\ job' = [job EXCEPT ![r] = [@ EXCEPT !.pc = "fetching", !.path = path]]
           /\ diskLog' = [diskLog EXCEPT ![path] = FileAfterOpen(@)]
    /\ UNCHANGED <<ticks, notSched>>

\* The planner returned: run() writes the header and every batch and closes.
RunWrites(r) ==
    /\ job[r].pc = "fetching"
    /\ job' = [job EXCEPT ![r] = [@ EXCEPT !.pc = "uploading"]]
    /\ diskLog' = [diskLog EXCEPT ![job[r].path] = Append(@, r)]
    /\ UNCHANGED <<ticks, notSched>>

\* run() comes to its end after the upload step.
RunReturns(r) ==
    /\ job[r].pc = "uploading"
    /\ job' = [job EXCEPT ![r] = [@ EXCEPT !.pc = "ran", !.result = "returned"]]
    /\ UNCHANGED <<ticks, diskLog, notSched>>

\* run() throws: the token, the probe or an offset-fetch failed, or the
\* planner returned nothing.
RunThrows(r) ==
    /\ job[r].pc \in {"auth", "fetching"}
    /\ job' = [job EXCEPT ![r] = [@ EXCEPT !.pc = "ran", !.result = "threw"]]
    /\ UNCHANGED <<ticks, diskLog, notSched>>

\* runScheduled comes to its end.
ScheduledEnds(r) ==
    /\ job[r].pc = "ran"
    /\ job' = [job EXCEPT ![r] = [@ EXCEPT !.pc = "ended",
                                           !.sched = RunScheduledOutcome(job[r].result)]]
    /\ UNCHANGED <<ticks, diskLog, notSched>>

InitSched ==
    /\ ExportUnused
    /\ AuthUnused
    /\ CsvUnused

NextSched ==
    \/ CronTick
    \/ \E r \in Runs : RunOpens(r)
    \/ \E r \in Runs : RunWrites(r)
    \/ \E r \in Runs : RunReturns(r)
    \/ \E r \in Runs : RunThrows(r)
    \/ \E r \in Runs : ScheduledEnds(r)

SpecSched == InitSched /\ [][NextSched]_vars

(***************************************************************************)
(* Cursor pagination: SalesforceQueryService.getAllResults.  It uses the   *)
(* planner's variables pc, requests, results, tokenCalls and error.        *)
(***************************************************************************)
\* Pages the remote system serves before it ends a cursor.
MaxPages == 4

\* nextBatchId of a response: absent, empty, or a cursor.
BatchIds == {NoId, "", "b1", "b2"}

\* The responses of the cursor API; `seq` is the ordinal of the response
\* among those the remote system sent for this query.
CursorResponses(n) ==
    [done : BOOLEAN, nextBatchId : BatchIds, seq : {n}]

CursorContinues_ignoresDone(resp) == TruthyStr(resp.nextBatchId)

\* while (!currentResponse.done && currentResponse.nextBatchId)
CursorContinues(resp) == ~resp.done /\ TruthyStr(resp.nextBatchId)

\* getAllResults rethrows what postQuery or getNextBatch threw.
CursorAbort(kind, status) ==
    /\ pc' = "failed"
    /\ error' = [kind |-> kind, status |-> status]

cursorRest == <<authVars, csvVars, rerunVars, config, upstreamRows, writeStream, file,
                flushed, failedStatus, initialResponse, queryId, totalRowCount,
                currentOffset, batchCount, pausedAfter, totalRowsWritten, uploadVars,
                oddLeft>>

\* postQuery(sql) up to its fetch().
CursorPostQuery ==
    /\ pc = "start"
    /\ tokenCalls' = tokenCalls + AcquisitionsPerRequest("postQuery")
    /\ \E tokenOk \in BOOLEAN :
         IF tokenOk
           THEN /\ requests' = Append(requests,
                        [kind |-> "postQuery", queryId |-> NoId, offset |-> 0,
                         rowLimit |-> NoCount])
                /\ inFlight' = TRUE
                /\ pc' = "cursorWait"
                /\ error' = error
           ELSE /\ CursorAbort("AuthError", 0)
                /\ UNCHANGED <<requests, inFlight>>
    /\ UNCHANGED <<cursorRest, lastStatus, results, plannerReturned>>

\* A response arrives: it is pushed and the loop condition is tested on it.
CursorResponse ==
    /\ pc = "cursorWait"
    /\ inFlight' = FALSE
    /\ \E status \in Statuses :
         /\ lastStatus' = status
         /\ IF ~ResponseOk(status)
              THEN /\ CursorAbort("QueryError", status)
                   /\ UNCHANGED <<results, plannerReturned>>
              ELSE \E resp \in CursorResponses(Len(results) + 1) :
                   /\ Len(results) + 1 < MaxPages
                        \/ resp.done \/ ~TruthyStr(resp.nextBatchId)
                   /\ results' = Append(results, resp)
                   /\ IF CursorContinues(resp)
                        THEN pc' = "cursorFetch" /\ plannerReturned' = FALSE
                        ELSE pc' = "returned" /\ plannerReturned' = TRUE
                   /\ error' = error
    /\ UNCHANGED <<cursorRest, tokenCalls, requests>>

\* The loop body up to its await: getNextBatch(currentResponse.nextBatchId).
CursorFetchRequest ==
    /\ pc = "cursorFetch"
    /\ tokenCalls' = tokenCalls + AcquisitionsPerRequest("getNextBatch")
    /\ \E tokenOk \in BOOLEAN :
         IF tokenOk
           THEN /\ requests' = Append(requests,
                        [kind |-> "getNextBatch",
                         queryId |-> results[Len(results)].nextBatchId,
                         offset |-> 0, rowLimit |-> NoCount])
                /\ inFlight' = TRUE
                /\ pc' = "cursorWait"
                /\ error' = error
           ELSE /\ CursorAbort("AuthError", 0)
                /\ UNCHANGED <<requests, inFlight>>
    /\ UNCHANGED <<cursorRest, lastStatus, results, plannerReturned>>

InitCursor ==
    /\ Init
    /\ config = [useOAuth |-> FALSE, gcsUploadEnabled |-> FALSE, gcsBucketName |-> NoId]
    /\ upstreamRows = 0

NextCursorRun ==
    \/ CursorPostQuery
    \/ CursorResponse
    \/ CursorFetchRequest

SpecCursor == InitCursor /\ [][NextCursorRun]_vars

(***************************************************************************)
(* What the properties below speak about.                                  *)
(***************************************************************************)
\* The offset-fetches (getQueryResults calls) sent so far, in order.
FetchRequests == SelectSeq(requests, LAMBDA r : r.kind = "getQueryResults")

\* Rows a response returned: returnedRows, or the data length when absent.
RowsOf(resp) ==
    IF resp.returnedRows # NoCount /\ resp.returnedRows # 0
      THEN resp.returnedRows ELSE resp.dataLen

RECURSIVE SumRows(_, _)
SumRows(resps, k) == IF k = 0 THEN 0 ELSE SumRows(resps, k - 1) + RowsOf(resps[k])

CeilDiv(n, d) == (n + d - 1) \div d

\* Every response received so far carried as many rows as were asked for.
AllPagesFull ==
    \A i \in 1..Len(results) : RowsOf(results[i]) = FetchRequests[i].rowLimit

HeaderLines == Cardinality({i \in 1..Len(file) : file[i].kind = "header"})

RECURSIVE DataLinesUpTo(_)
DataLinesUpTo(k) ==
    IF k = 0 THEN 0
    ELSE DataLinesUpTo(k - 1) + (IF file[k].kind = "rows" THEN file[k].count ELSE 0)
DataLines == DataLinesUpTo(Len(file))

\* Batches whose rows have been handed to the writer.
BatchesWritten == IF writeStream = "ended" THEN Len(results) ELSE 0

ProbeReceived == initialResponse # NoResponse
ProbeHasHandle ==
    ProbeReceived /\ (initialResponse.queryId # NoId \/ initialResponse.statusQueryId # NoId)
ProbeHandle ==
    IF initialResponse.queryId # NoId THEN initialResponse.queryId
    ELSE initialResponse.statusQueryId
ProbeHasNoCount ==
    ProbeReceived /\ initialResponse.statusRowCount = NoCount
                  /\ initialResponse.rowCount = NoCount
ProbeReportsZero ==
    /\ ProbeReceived
    /\ initialResponse.statusRowCount \in {NoCount, 0}
    /\ initialResponse.rowCount \in {NoCount, 0}
    /\ ~ProbeHasNoCount
RunEnded == pc \in {"done", "failed"}

C2_SumEqualsTotal ==
    plannerReturned => SumRows(results, Len(results)) = totalRowCount

\* A completed run in which a short page came without returnedRows.
C2_Witness ==
    /\ plannerReturned /\ totalRowCount = 60000
    /\ \E i \in 1..Len(results) :
         results[i].returnedRows = NoCount /\ results[i].dataLen = ShortPage

C4_DoneEndsLoop ==
    \A i \in 2..Len(FetchRequests) : ~results[i - 1].done

(***************************************************************************)
(* C5.  As claimed: batch k is handed to the writer before fetch k+1 is    *)
(* requested, and never more than one fetched batch is held unwritten.     *)
(***************************************************************************)
C5_BatchWrittenBeforeNextFetch ==
    /\ Len(results) - BatchesWritten <= 1
    /\ Len(FetchRequests) >= 2 => BatchesWritten >= Len(FetchRequests) - 1

(***************************************************************************)
(* C6.  As claimed: a probe with a handle and a total of 0 rows ends in a  *)
(* successful run with no offset-fetch, one header line, no data line and  *)
(* a closed writer.                                                        *)
(***************************************************************************)
C6_EmptyResultWritesHeader ==
    (RunEnded /\ ProbeHasHandle /\ ProbeReportsZero) =>
        /\ pc = "done" /\ error = NoError
        /\ Len(FetchRequests) = 0
        /\ HeaderLines = 1 /\ DataLines = 0
        /\ writeStream = "ended"

(***************************************************************************)
(* C7.  A probe response without a handle at the top level and under       *)
(* status makes the planner fail before any offset-fetch; a handle in      *)
(* either place (the top level first) is the one every offset-fetch uses.  *)
(***************************************************************************)
C7_HandleRequired ==
    ProbeReceived =>
        IF ~ProbeHasHandle
          THEN pc = "failed" /\ error.kind = "NoQueryId" /\ Len(FetchRequests) = 0
          ELSE /\ error.kind # "NoQueryId"
               /\ \A i \in 1..Len(FetchRequests) : FetchRequests[i].queryId = ProbeHandle

\* A run failed on a probe response that carried no handle anywhere.
C7_Witness ==
    ProbeReceived /\ ~ProbeHasHandle /\ pc = "failed" /\ error.kind = "NoQueryId"

(***************************************************************************)
(* C8.  As claimed: a probe with a handle but no total row count anywhere  *)
(* makes the planner fail; the absent count is not taken as zero rows.     *)
(***************************************************************************)
C8_MissingCountIsFatal ==
    (ProbeHasHandle /\ ProbeHasNoCount) => (pc = "failed" /\ ~plannerReturned)

(***************************************************************************)
(* C9.  A non-success status of the probe or of an offset-fetch aborts the *)
(* run with that error: the failed request is the last one sent and was    *)
(* sent once, the writer is open but never ended, nothing has been         *)
(* written, and no upload is attempted.                                    *)
(***************************************************************************)
C9_QueryFailureAborts ==
    failedStatus # 0 =>
        /\ pc = "failed"
        /\ error = [kind |-> "QueryError", status |-> failedStatus]
        /\ ~inFlight
        /\ Len(requests) = (IF ProbeReceived THEN 2 + Len(results) ELSE 1)
        /\ writeStream = "open"
        /\ file = <<>>
        /\ uploads = 0

\* A run aborted by a 401 on an offset-fetch after an earlier batch arrived.
C9_Witness ==
    failedStatus = 401 /\ Len(results) >= 1 /\ pc = "failed"

(***************************************************************************)
(* C10.  A failed storage upload does not fail the run: the file is        *)
(* written and closed and run() completes normally.                        *)
(***************************************************************************)
C10_UploadFailureSwallowed ==
    uploadFailed =>
        /\ pc = "done" /\ error = NoError
        /\ writeStream = "ended" /\ HeaderLines = 1
        /\ uploads = 1

\* A completed run whose upload failed.
C10_Witness ==
    uploadFailed /\ pc = "done" /\ writeStream = "ended"

(***************************************************************************)
(* getAccessToken of SalesforceApiClient and SalesforceAuthService.  Each   *)
(* action runs from one await to the next.                                 *)
(***************************************************************************)
authData == <<currentToken, tokenExpiry, validationCache>>

CachedOutcome_unlogged(token) == "returned"

\* The log line before `return this.currentToken` reads
\* this.currentToken.length: it throws a TypeError when the token is null.
CachedOutcome(token) == IF token = NoId THEN "threw" ELSE "returned"

\* return this.currentToken, after a successful validation.
ReturnCached(c, rec) ==
    call' = [call EXCEPT ![c] = [rec EXCEPT !.pc = CachedOutcome(currentToken'),
                                            !.ret = currentToken',
                                            !.path = "cached"]]

\* refreshToken up to its fetch of the token endpoint.
SendExchange(c, rec) ==
    /\ exchangesSent' = exchangesSent + 1
    /\ call' = [call EXCEPT ![c] =
                  [rec EXCEPT !.pc = "exchanging",
                              !.snap = Snapshot(currentToken', tokenExpiry',
                                                validationCache')]]

\* getAccessToken up to its first network call, or to its return when the
\* validation cache answers.
BeginGetAccessToken(c) ==
    /\ authMode = "oauth"
    /\ call[c].pc = "idle"
    /\ callsLeft > 0
    /\ callsLeft' = callsLeft - 1
    /\ LET usable == currentToken # NoId /\ ~isTokenExpired(currentToken, tokenExpiry, now)
           entry  == IF currentToken # NoId
                       THEN validationCache[CacheKey(currentToken)] ELSE NoEntry
           fresh  == CacheFresh(entry, now)
           rec    == [IdleCall EXCEPT !.startTok = currentToken,
                                      !.startExpiry = tokenExpiry,
                                      !.startValid = (entry # NoEntry /\ entry.isValid
                                           /\ now - entry.timestamp < VALIDATION_CACHE_TTL),
                                      !.exchBefore = exchangesSent]
       IN  IF usable
             THEN IF fresh
                    THEN IF entry.isValid
                           THEN /\ UNCHANGED <<authData, exchangesSent, probesSent>>
                                /\ ReturnCached(c, [rec EXCEPT !.valid = "ok"])
                           ELSE /\ currentToken' = clearCachedToken.token
                                /\ tokenExpiry' = clearCachedToken.expiry
                                /\ validationCache' = clearCachedToken.cache
                                /\ SendExchange(c, [rec EXCEPT !.valid = "bad"])
                                /\ UNCHANGED probesSent
                    ELSE /\ probesSent' = probesSent + 1
                         /\ call' = [call EXCEPT ![c] =
                                       [rec EXCEPT !.pc = "validating", !.tok = currentToken]]
                         /\ UNCHANGED <<authData, exchangesSent>>
             ELSE /\ UNCHANGED <<authData, probesSent>>
                  /\ SendExchange(c, rec)
    /\ UNCHANGED <<authMode, now, ticksLeft, prevReturned, exportVars, csvVars>>

\* The userinfo probe answers: isTokenValid stores the result, getAccessToken
\* returns the token or clears and refreshes.
ValidationResponse(c) ==
    /\ call[c].pc = "validating"
    /\ \E ok \in BOOLEAN :
         LET stored == [validationCache EXCEPT ![CacheKey(call[c].tok)] =
                           [isValid |-> ok, timestamp |-> now]]
         IN  IF ok
               THEN /\ validationCache' = stored
                    /\ UNCHANGED <<currentToken, tokenExpiry, exchangesSent>>
                    /\ ReturnCached(c, [call[c] EXCEPT !.valid = "ok"])
               ELSE /\ currentToken' = clearCachedToken.token
                    /\ tokenExpiry' = clearCachedToken.expiry
                    /\ validationCache' = clearCachedToken.cache
                    /\ SendExchange(c, [call[c] EXCEPT !.valid = "bad"])
    /\ UNCHANGED <<authMode, now, callsLeft, ticksLeft, probesSent, prevReturned,
                   exportVars, csvVars>>

\* The token endpoint answers: refreshToken stores token and expiry and
\* returns, or throws on a non-success response.
ExchangeResponse(c) ==
    /\ call[c].pc = "exchanging"
    /\ \E ok \in BOOLEAN :
         IF ok
           THEN \E t \in Tokens, issuedAt \in IssuedAts(now) :
                  /\ currentToken' = t
                  /\ tokenExpiry' = ExpiryAfterExchange(now, issuedAt)
                  /\ call' = [call EXCEPT ![c] = [@ EXCEPT !.pc = "returned", !.ret = t,
                                                           !.path = "exchange"]]
           ELSE /\ UNCHANGED <<currentToken, tokenExpiry>>
                /\ call' = [call EXCEPT ![c] = [@ EXCEPT !.pc = "threw"]]
    /\ UNCHANGED <<authMode, validationCache, now, callsLeft, ticksLeft, exchangesSent,
                   probesSent, prevReturned, exportVars, csvVars>>

\* isTokenValid called on its own, up to its probe or to its return when
\* there is no token or the validation cache answers.
BeginIsTokenValid(c) ==
    /\ authMode = "oauth"
    /\ call[c].pc = "idle"
    /\ callsLeft > 0
    /\ callsLeft' = callsLeft - 1
    /\ LET entry == IF currentToken # NoId
                      THEN validationCache[CacheKey(currentToken)] ELSE NoEntry
           rec   == [IdleCall EXCEPT !.startTok = currentToken,
                                     !.startExpiry = tokenExpiry,
                                     !.path = "isTokenValid"]
       IN  IF currentToken = NoId
             THEN /\ call' = [call EXCEPT ![c] =
                                [rec EXCEPT !.pc = "answered", !.valid = "bad"]]
                  /\ probesSent' = probesSent
             ELSE IF CacheFresh(entry, now)
                    THEN /\ call' = [call EXCEPT ![c] =
                                       [rec EXCEPT !.pc = "answered",
                                                   !.valid = IF entry.isValid
                                                               THEN "ok" ELSE "bad"]]
                         /\ probesSent' = probesSent
                    ELSE /\ call' = [call EXCEPT ![c] =
                                       [rec EXCEPT !.pc = "checking",
                                                   !.tok = currentToken]]
                         /\ probesSent' = probesSent + 1
    /\ UNCHANGED <<authMode, authData, now, ticksLeft, exchangesSent, prevReturned,
                   exportVars, csvVars>>

\* The userinfo probe of a lone isTokenValid answers: the result is stored
\* under the key taken before the probe and returned.
IsTokenValidResponse(c) ==
    /\ call[c].pc = "checking"
    /\ \E ok \in BOOLEAN :
         /\ validationCache' = [validationCache EXCEPT ![CacheKey(call[c].tok)] =
                                  [isValid |-> ok, timestamp |-> now]]
         /\ call' = [call EXCEPT ![c] =
                       [@ EXCEPT !.pc = "answered",
                                 !.valid = IF ok THEN "ok" ELSE "bad"]]
    /\ UNCHANGED <<authMode, currentToken, tokenExpiry, now, callsLeft, ticksLeft,
                   exchangesSent, probesSent, prevReturned, exportVars, csvVars>>

\* The caller takes the answer of isTokenValid.
FinishCheck(c) ==
    /\ call[c].pc = "answered"
    /\ call' = [call EXCEPT ![c] = IdleCall]
    /\ UNCHANGED <<authMode, authData, now, callsLeft, ticksLeft, exchangesSent,
                   probesSent, prevReturned, exportVars, csvVars>>

\* SalesforceApiClient.getAccessToken with no authService, up to the fetch of
\* validateStaticToken.
BeginStatic(c) ==
    /\ authMode = "static"
    /\ call[c].pc = "idle"
    /\ callsLeft > 0
    /\ callsLeft' = callsLeft - 1
    /\ IF TruthyStr(StaticToken)
         THEN /\ probesSent' = probesSent + 1
              /\ call' = [call EXCEPT ![c] = [IdleCall EXCEPT !.pc = "staticProbe",
                                                              !.tok = StaticToken]]
         ELSE /\ probesSent' = probesSent
              /\ call' = [call EXCEPT ![c] = [IdleCall EXCEPT !.pc = "threw"]]
    /\ UNCHANGED <<authMode, authData, now, ticksLeft, exchangesSent, prevReturned,
                   exportVars, csvVars>>

\* The limits probe answers.
StaticProbeResponse(c) ==
    /\ call[c].pc = "staticProbe"
    /\ \E ok \in BOOLEAN :
         call' = [call EXCEPT ![c] =
                    IF StaticOutcome(call[c].tok, ok) = "return"
                      THEN [@ EXCEPT !.pc = "returned", !.ret = call[c].tok,
                                     !.path = "static",
                                     !.valid = IF ok THEN "ok" ELSE "bad"]
                      ELSE [@ EXCEPT !.pc = "threw",
                                     !.valid = IF ok THEN "ok" ELSE "bad"]]
    /\ UNCHANGED <<authMode, authData, now, callsLeft, ticksLeft, exchangesSent,
                   probesSent, prevReturned, exportVars, csvVars>>

\* The caller takes the result of its call.
FinishCall(c) ==
    /\ call[c].pc \in {"returned", "threw"}
    /\ prevReturned' = IF call[c].pc = "returned" THEN call[c].ret ELSE NoId
    /\ call' = [call EXCEPT ![c] = IdleCall]
    /\ UNCHANGED <<authMode, authData, now, callsLeft, ticksLeft, exchangesSent,
                   probesSent, exportVars, csvVars>>

\* Time passes between calls.
Tick ==
    /\ ticksLeft > 0
    /\ \A c \in Callers : call[c].pc = "idle"
    /\ ticksLeft' = ticksLeft - 1
    /\ \E d \in TickSteps : now' = now + d
    /\ UNCHANGED <<authMode, authData, call, callsLeft, exchangesSent, probesSent,
                   prevReturned, exportVars, csvVars>>

InitAuth ==
    /\ authMode \in {"oauth", "static"}
    /\ callsLeft = MaxCalls
    /\ ticksLeft = MaxTicks
    /\ AuthStart
    /\ ExportUnused
    /\ CsvUnused

\* One caller: calls follow one another, as in Application.run.
NextAuthSeq ==
    \/ BeginGetAccessToken(1)
    \/ ValidationResponse(1)
    \/ ExchangeResponse(1)
    \/ BeginStatic(1)
    \/ StaticProbeResponse(1)
    \/ FinishCall(1)
    \/ Tick

SpecAuthSeq == InitAuth /\ [][NextAuthSeq]_vars

\* One caller that also asks isTokenValid directly between its calls, as
\* the token validation demo does.
NextValid ==
    \/ BeginGetAccessToken(1)
    \/ ValidationResponse(1)
    \/ ExchangeResponse(1)
    \/ BeginIsTokenValid(1)
    \/ IsTokenValidResponse(1)
    \/ FinishCheck(1)
    \/ BeginStatic(1)
    \/ StaticProbeResponse(1)
    \/ FinishCall(1)
    \/ Tick

SpecValid == InitAuth /\ [][NextValid]_vars

\* Two callers on one service: calls may overlap, as overlapping scheduled
\* runs make them.
NextAuth ==
    \/ \E c \in Callers : BeginGetAccessToken(c)
    \/ \E c \in Callers : ValidationResponse(c)
    \/ \E c \in Callers : ExchangeResponse(c)
    \/ \E c \in Callers : BeginStatic(c)
    \/ \E c \in Callers : StaticProbeResponse(c)
    \/ \E c \in Callers : FinishCall(c)
    \/ Tick

SpecAuth == InitAuth /\ [][NextAuth]_vars

(***************************************************************************)
(* Properties of the token service.                                        *)
(***************************************************************************)
\* The call of caller c began with a token the previous call returned, not
\* yet expired, and the validation it consulted (cached within the TTL, or
\* fresh) succeeded.
SecondCallOnGoodToken(c) ==
    /\ call[c].startTok # NoId
    /\ call[c].startTok = prevReturned
    /\ now < call[c].startExpiry
    /\ call[c].startValid \/ call[c].valid = "ok"

\* C11: a getAccessToken call that follows one which obtained a token, made
\* before that token's expiry and with a successful validation result (cached
\* within the TTL or fresh), sends no request to the token endpoint and
\* returns the token the first call returned.
C11_SecondCallUsesCache ==
    \A c \in Callers :
      (authMode = "oauth" /\ SecondCallOnGoodToken(c)) =>
        /\ call[c].pc \in {"validating", "returned"}
        /\ exchangesSent = call[c].exchBefore
        /\ call[c].pc = "returned" =>
             /\ call[c].ret = prevReturned
             /\ call[c].path = "cached"

\* A second call returned the first call's token on a validation result
\* cached less than the TTL ago, after time had passed.
C11_Witness ==
    /\ call[1].pc = "returned"
    /\ SecondCallOnGoodToken(1)
    /\ call[1].startValid
    /\ call[1].ret = prevReturned
    /\ now > 0
    /\ exchangesSent = 1

\* C12: whenever a call has sent a token exchange, the token, its expiry and
\* every validation entry were discarded before the request went out, and no
\* validation entry is left when the new token has been stored.
C12_DiscardedBeforeExchange ==
    \A c \in Callers :
      /\ call[c].pc = "exchanging" => call[c].snap = NoSnap
      /\ (call[c].pc = "returned" /\ call[c].path = "exchange") =>
           validationCache = EmptyCache

\* The token a returned call resolved with is one that may be used.
UsableReturn(c) ==
    \/ call[c].path = "exchange"
    \/ /\ call[c].ret # NoId
       /\ call[c].ret = currentToken
       /\ now < tokenExpiry
       /\ validationCache[CacheKey(call[c].ret)] # NoEntry
       /\ validationCache[CacheKey(call[c].ret)].isValid

\* C13: every token getAccessToken of the token service returns is the one
\* its own call just obtained by a successful exchange, or the cached token,
\* not past its expiry, whose most recent validation result is success.
C13_ReturnedTokenUsable ==
    [][\A c \in Callers :
         (authMode = "oauth" /\ call[c].pc # "returned" /\ call'[c].pc = "returned")
           => UsableReturn(c)']_vars

\* C14: calls that overlap on one service never have more than one token
\* exchange in flight.
C14_SingleFlight ==
    Cardinality({c \in Callers : call[c].pc = "exchanging"}) <= 1

\* C15: with no OAuth client credentials, every call sends one validation
\* probe of the static token, no call sends a token exchange, a call returns
\* the static token only after its probe succeeded, and it throws when its
\* probe failed or when no token is configured.
C15_StaticTokenProbedEachCall ==
    authMode = "static" =>
      /\ exchangesSent = 0
      /\ probesSent = MaxCalls - callsLeft
      /\ \A c \in Callers :
           /\ call[c].pc = "returned" =>
                /\ call[c].ret = StaticToken
                /\ call[c].valid = "ok"
           /\ call[c].valid = "bad" => call[c].pc = "threw"
           /\ call[c].pc = "threw" =>
                call[c].valid = "bad" \/ ~TruthyStr(StaticToken)

\* A later call found the static token rejected by its probe and threw.
C15_Witness ==
    /\ authMode = "static"
    /\ call[1].pc = "threw"
    /\ call[1].valid = "bad"
    /\ probesSent >= 2
    /\ prevReturned = StaticToken

(***************************************************************************)
(* CsvWriter.  A string is the sequence of its characters; a line is the    *)
(* sequence of its fields, which write() joins with ',' and ends with '\n'. *)
(***************************************************************************)
MaxStrLen == 3
MaxCsvRows == 2

Quote == "\""
Comma == ","
LF == "\n"
CR == "\r"
Chars == {"a", Comma, Quote, LF, CR}
SpecialChars == {Quote, Comma, LF, CR}

Strings == UNION {[1..n -> Chars] : n \in 0..MaxStrLen}

\* null and undefined: values that are no strings.
Null == <<"null">>
Undefined == <<"undefined">>

\* The characters of a field name.
Spell(name) ==
    CASE name = "id" -> <<"i", "d">>
      [] name = "name" -> <<"n", "a", "m", "e">>
      [] OTHER -> <<"e", "x", "t", "r", "a">>

\* str.replace(/"/g, '""')
RECURSIVE DoubleQuotes(_)
DoubleQuotes(str) ==
    IF str = <<>> THEN <<>>
    ELSE (IF Head(str) = Quote THEN <<Quote, Quote>> ELSE <<Head(str)>>)
         \o DoubleQuotes(Tail(str))

\* /[",\n\r]/.test(str)
HasSpecial(str) == \E i \in 1..Len(str) : str[i] \in SpecialChars

escapeCsv_noDoubling(value) ==
    IF value \in {Null, Undefined} THEN <<>>
    ELSE IF HasSpecial(value) THEN <<Quote>> \o value \o <<Quote>>
    ELSE value

escapeCsv(value) ==
    IF value \in {Null, Undefined} THEN <<>>
    ELSE IF HasSpecial(value) THEN <<Quote>> \o DoubleQuotes(value) \o <<Quote>>
    ELSE value

\* Rows of a batch.  A row is an array of cells, or an object whose keys map
\* to cells; a key the object lacks reads as undefined.
RowKeys == {"id", "name", "extra"}
NoObject == [k \in RowKeys |-> Undefined]
ArrayRow(cells) == [shape |-> "array", cells |-> cells, obj |-> NoObject]
ObjectRow(obj) == [shape |-> "object", cells |-> <<>>, obj |-> obj]

Rows ==
    { ArrayRow(<< <<"a">>, <<"a", Comma>> >>),
      ArrayRow(<< <<Quote>>, Null, <<"a">> >>),
      ObjectRow([id |-> <<"a">>, name |-> <<"a", Comma>>, extra |-> Undefined]),
      ObjectRow([id |-> Null, name |-> Undefined, extra |-> <<Quote>>]) }

rowToOrderedArray_values(row, hdrs) ==
    IF row.shape = "array" THEN row.cells
    ELSE SelectSeq(<<row.obj["id"], row.obj["name"], row.obj["extra"]>>,
                   LAMBDA v : v # Undefined)

rowToOrderedArray(row, hdrs) ==
    IF row.shape = "array" THEN row.cells
    ELSE [i \in 1..Len(hdrs) |-> row.obj[hdrs[i]]]

\* What writeHeaders and writeRow hand to write().
HeaderLine(hdrs) ==
    [kind |-> "header", fields |-> [i \in 1..Len(hdrs) |-> escapeCsv(Spell(hdrs[i]))]]

RowLine(row, hdrs) ==
    LET ordered == rowToOrderedArray(row, hdrs)
    IN  [kind |-> "row", fields |-> [i \in 1..Len(ordered) |-> escapeCsv(ordered[i])]]

\* Application.run and writeDataToCsv walk the batches and their rows.
EndCursor == [batch |-> 0, row |-> 0]

RECURSIVE SeekRow(_, _)
SeekRow(resps, b) ==
    IF b > Len(resps) THEN EndCursor
    ELSE IF Len(resps[b].data) > 0 THEN [batch |-> b, row |-> 1]
    ELSE SeekRow(resps, b + 1)

NextCursor(resps, cur) ==
    IF cur.row < Len(resps[cur.batch].data)
      THEN [batch |-> cur.batch, row |-> cur.row + 1]
      ELSE SeekRow(resps, cur.batch + 1)

RowAt_reversed(resps, cur) ==
    resps[cur.batch].data[Len(resps[cur.batch].data) + 1 - cur.row]

RowAt(resps, cur) == resps[cur.batch].data[cur.row]

RowHeaders_ownBatch(hdrs, resps, cur) ==
    getHeadersFromMetadata(resps[cur.batch].metadata)

\* The headers argument writeDataToCsv passes to writeRow.
RowHeaders(hdrs, resps, cur) == hdrs

LinesForRow_headerPerBatch(hdrs, resps, cur) ==
    (IF cur.batch > 1 /\ cur.row = 1 THEN <<HeaderLine(hdrs)>> ELSE <<>>)
    \o <<RowLine(RowAt(resps, cur), RowHeaders(hdrs, resps, cur))>>

\* What the loop writes for the row at the cursor.
LinesForRow(hdrs, resps, cur) ==
    <<RowLine(RowAt(resps, cur), RowHeaders(hdrs, resps, cur))>>

\* Inputs of the writer: one or two batches of up to MaxCsvRows rows.
BatchCounts == {1, 2}
DataSeqs == UNION {[1..n -> Rows] : n \in 0..MaxCsvRows}
Batches == [metadata : MetaIds, data : DataSeqs]
CsvInputs == UNION {[1..n -> Batches] : n \in BatchCounts}

\* Inputs for escapeCsv alone: one batch of one single-cell row.
EscapeInputs ==
    { <<[metadata |-> m, data |-> <<ArrayRow(<<str>>)>>]>> : m \in MetaIds, str \in Strings }

CsvStart ==
    /\ csvPc = "start"
    /\ csvStream = "null"
    /\ headers = <<>>
    /\ lines = <<>>
    /\ cursor = EndCursor

\* csvWriter.open()
CsvOpen ==
    /\ csvPc = "start"
    /\ csvStream' = "open"
    /\ csvPc' = "header"
    /\ UNCHANGED <<allResponses, headers, lines, cursor, authVars, exportVars>>

\* headers from the first response, then csvWriter.writeHeaders(headers).
WriteHeaders ==
    /\ csvPc = "header"
    /\ csvStream = "open"
    /\ headers' = getHeadersFromMetadata(allResponses[1].metadata)
    /\ lines' = Append(lines, HeaderLine(headers'))
    /\ cursor' = SeekRow(allResponses, 1)
    /\ csvPc' = "rows"
    /\ UNCHANGED <<allResponses, csvStream, authVars, exportVars>>

\* One csvWriter.writeRow(row, headers) of writeDataToCsv.
WriteRow ==
    /\ csvPc = "rows"
    /\ csvStream = "open"
    /\ cursor # EndCursor
    /\ lines' = lines \o LinesForRow(headers, allResponses, cursor)
    /\ cursor' = NextCursor(allResponses, cursor)
    /\ UNCHANGED <<allResponses, csvPc, csvStream, headers, authVars, exportVars>>

\* csvWriter.close() after the last batch.
CsvClose ==
    /\ csvPc = "rows"
    /\ cursor = EndCursor
    /\ csvStream' = "ended"
    /\ csvPc' = "closed"
    /\ UNCHANGED <<allResponses, headers, lines, cursor, authVars, exportVars>>

NextCsv ==
    \/ CsvOpen
    \/ WriteHeaders
    \/ WriteRow
    \/ CsvClose

InitCsv ==
    /\ allResponses \in CsvInputs
    /\ CsvStart
    /\ AuthUnused
    /\ ExportUnused

SpecCsv == InitCsv /\ [][NextCsv]_vars

InitEscape ==
    /\ allResponses \in EscapeInputs
    /\ CsvStart
    /\ AuthUnused
    /\ ExportUnused

SpecEscape == InitEscape /\ [][NextCsv]_vars

(***************************************************************************)
(* The CsvWriter called by a client in any order, before and after open(). *)
(* csvPc holds how the last call ended.                                    *)
(***************************************************************************)
WriteOutcome_lazyOpen(stream) == "wrote"

\* if (!this.writeStream) throw new Error('Write stream not opened...')
WriteOutcome(stream) == IF stream = "null" THEN "threw" ELSE "wrote"

\* close(): if (this.writeStream) this.writeStream.end()
StreamAfterClose(stream) == IF stream = "null" THEN "null" ELSE "ended"

\* open()
CallOpen ==
    /\ csvStream = "null"
    /\ csvStream' = "open"
    /\ csvPc' = "opened"
    /\ UNCHANGED <<allResponses, headers, lines, cursor, authVars, exportVars>>

\* writeHeaders(headers)
CallWriteHeaders ==
    /\ csvStream # "ended"
    /\ Len(lines) <= MaxCsvRows
    /\ LET hdrs == getHeadersFromMetadata(allResponses[1].metadata)
       IN  /\ csvPc' = WriteOutcome(csvStream)
           /\ lines' = IF WriteOutcome(csvStream) = "wrote"
                         THEN Append(lines, HeaderLine(hdrs)) ELSE lines
    /\ UNCHANGED <<allResponses, csvStream, headers, cursor, authVars, exportVars>>

\* writeRow(row, headers)
CallWriteRow ==
    /\ csvStream # "ended"
    /\ Len(lines) <= MaxCsvRows
    /\ \E b \in 1..Len(allResponses) : \E i \in 1..Len(allResponses[b].data) :
         LET hdrs == getHeadersFromMetadata(allResponses[1].metadata)
         IN  /\ csvPc' = WriteOutcome(csvStream)
             /\ lines' = IF WriteOutcome(csvStream) = "wrote"
                           THEN Append(lines, RowLine(allResponses[b].data[i], hdrs))
                           ELSE lines
    /\ UNCHANGED <<allResponses, csvStream, headers, cursor, authVars, exportVars>>

\* close()
CallClose ==
    /\ csvStream # "ended"
    /\ csvStream' = StreamAfterClose(csvStream)
    /\ csvPc' = IF csvStream = "null" THEN "closeSkipped" ELSE "closed"
    /\ UNCHANGED <<allResponses, headers, lines, cursor, authVars, exportVars>>

NextWriter ==
    \/ CallOpen
    \/ CallWriteHeaders
    \/ CallWriteRow
    \/ CallClose

SpecWriter == InitEscape /\ [][NextWriter]_vars

(***************************************************************************)
(* Properties of the writer.                                               *)
(***************************************************************************)
\* All rows handed to the writer: batch after batch, each in upstream order.
RECURSIVE FlatRows(_, _)
FlatRows(resps, b) ==
    IF b > Len(resps) THEN <<>> ELSE resps[b].data \o FlatRows(resps, b + 1)

DataLinesWritten == SelectSeq(lines, LAMBDA l : l.kind = "row")

\* A reader of the format (RFC 4180): a field that starts and ends with a
\* quote is unwrapped and its doubled quotes are halved.
RECURSIVE Undouble(_)
Undouble(str) ==
    IF str = <<>> THEN <<>>
    ELSE IF Head(str) = Quote /\ Len(str) >= 2 /\ str[2] = Quote
           THEN <<Quote>> \o Undouble(Tail(Tail(str)))
           ELSE <<Head(str)>> \o Undouble(Tail(str))

Unescape(field) ==
    IF Len(field) >= 2 /\ field[1] = Quote /\ field[Len(field)] = Quote
      THEN Undouble(SubSeq(field, 2, Len(field) - 1))
      ELSE field

\* The text of a cell: null and undefined have none.
TextOf(value) == IF value \in {Null, Undefined} THEN <<>> ELSE value

QuoteCount(str) == Cardinality({i \in 1..Len(str) : str[i] = Quote})

IsPlain(str) == \A i \in 1..Len(str) : str[i] \notin {Comma, Quote, CR, LF}

FirstBatchNames == FieldNames(allResponses[1].metadata)

\* C16: once anything is written, the first line is the header line and no
\* later line is a header line, whatever the number of batches.
C16_HeaderOnceAndFirst ==
    lines # <<>> =>
      /\ lines[1].kind = "header"
      /\ \A i \in 2..Len(lines) : lines[i].kind = "row"

\* Two batches with rows were written and the file closed.
C16_Witness ==
    /\ csvPc = "closed"
    /\ Len(allResponses) = 2
    /\ Len(allResponses[1].data) > 0
    /\ Len(allResponses[2].data) > 0
    /\ Len(lines) = 1 + Len(FlatRows(allResponses, 1))

\* C17: the header line and the projection of every name-keyed row of every
\* batch use the field names of the first batch's metadata, in its order,
\* whatever the metadata of the row's own batch.
C17_ColumnsFromFirstBatch ==
    csvPc \in {"rows", "closed"} =>
      /\ headers = FirstBatchNames
      /\ lines[1].fields = [i \in 1..Len(FirstBatchNames) |-> Spell(FirstBatchNames[i])]
      /\ \A j \in 1..Len(DataLinesWritten) :
           LET row == FlatRows(allResponses, 1)[j]
               fields == DataLinesWritten[j].fields
           IN  row.shape = "object" =>
                 /\ Len(fields) = Len(FirstBatchNames)
                 /\ \A i \in 1..Len(fields) :
                      Unescape(fields[i]) = TextOf(row.obj[FirstBatchNames[i]])

\* A name-keyed row of a second batch whose metadata lists the fields in
\* another order was written.
C17_Witness ==
    /\ csvPc = "closed"
    /\ Len(allResponses) = 2
    /\ allResponses[2].metadata # allResponses[1].metadata
    /\ FieldNames(allResponses[2].metadata) # FirstBatchNames
    /\ \E r \in 1..Len(allResponses[2].data) :
         /\ allResponses[2].data[r].shape = "object"
         /\ allResponses[2].data[r].obj["id"] # allResponses[2].data[r].obj["name"]

\* C18: for every string, the field escapeCsv writes reads back as the
\* string; a string without comma, quote, CR or LF is written unchanged, any
\* other is wrapped in quotes with each inner quote doubled.
C18_EscapeRoundTrip ==
    \A j \in 1..Len(DataLinesWritten) :
      LET row == FlatRows(allResponses, 1)[j]
          fields == DataLinesWritten[j].fields
      IN  row.shape = "array" =>
            \A i \in 1..Len(row.cells) :
              LET value == row.cells[i]
                  field == fields[i]
              IN  value \notin {Null, Undefined} =>
                    /\ Unescape(field) = value
                    /\ IsPlain(value) => field = value
                    /\ ~IsPlain(value) =>
                         /\ field[1] = Quote
                         /\ field[Len(field)] = Quote
                         /\ Len(field) = Len(value) + 2 + QuoteCount(value)

\* A string holding a quote, a comma and a line feed was written.
C18_Witness ==
    /\ Len(DataLinesWritten) = 1
    /\ allResponses[1].data[1].cells = << <<Quote, Comma, LF>> >>
    /\ Unescape(DataLinesWritten[1].fields[1]) = <<Quote, Comma, LF>>

\* C19: writeRow writes an array row field by field as given, and a
\* name-keyed row as one field per header in header order: keys that are no
\* header are dropped, a header the row lacks or holds null for gives an
\* empty field.
C19_RowProjection ==
    \A j \in 1..Len(DataLinesWritten) :
      LET row == FlatRows(allResponses, 1)[j]
          fields == DataLinesWritten[j].fields
      IN  IF row.shape = "array"
            THEN /\ Len(fields) = Len(row.cells)
                 /\ \A i \in 1..Len(fields) : Unescape(fields[i]) = TextOf(row.cells[i])
            ELSE /\ Len(fields) = Len(headers)
                 /\ \A i \in 1..Len(fields) :
                      /\ Unescape(fields[i]) = TextOf(row.obj[headers[i]])
                      /\ row.obj[headers[i]] \in {Null, Undefined} => fields[i] = <<>>

\* A name-keyed row with a null value, a missing header and a key that is no
\* header was written, and so was an array row longer than the header.
C19_Witness ==
    /\ csvPc = "closed"
    /\ \E j \in 1..Len(DataLinesWritten) :
         LET row == FlatRows(allResponses, 1)[j]
         IN  /\ row.shape = "object"
             /\ row.obj["id"] = Null
             /\ row.obj["name"] = Undefined
             /\ row.obj["extra"] # Undefined
             /\ DataLinesWritten[j].fields = << <<>>, <<>> >>
    /\ \E j \in 1..Len(DataLinesWritten) :
         /\ FlatRows(allResponses, 1)[j].shape = "array"
         /\ Len(DataLinesWritten[j].fields) > Len(headers)

\* C20: the data lines are the rows in fetch order: the j-th data line is the
\* j-th row counting batch after batch and, inside a batch, in the order the
\* batch holds them; at close every row has its line.
C20_RowsInFetchOrder ==
    /\ Len(DataLinesWritten) <= Len(FlatRows(allResponses, 1))
    /\ \A j \in 1..Len(DataLinesWritten) :
         DataLinesWritten[j] = RowLine(FlatRows(allResponses, 1)[j], FirstBatchNames)
    /\ csvPc = "closed" => Len(DataLinesWritten) = Len(FlatRows(allResponses, 1))

\* Two batches of two different rows each were written.
C20_Witness ==
    /\ csvPc = "closed"
    /\ Len(allResponses) = 2
    /\ \A b \in 1..2 :
         /\ Len(allResponses[b].data) = 2
         /\ RowLine(allResponses[b].data[1], FirstBatchNames)
              # RowLine(allResponses[b].data[2], FirstBatchNames)
    /\ allResponses[1].data # allResponses[2].data

(***************************************************************************)
(* Properties of C21..C30.                                                 *)
(***************************************************************************)
\* C21: a second run of the same query against an upstream that answers as
\* it did in the first run sends the same requests and leaves the same file:
\* the same header and the same data lines in the same order.
C21_SecondRunWritesSameFile ==
    (runNo = 2 /\ pc = "done") =>
      /\ file = firstFile
      /\ requests = script.requests

\* A second run completed on a result of several batches, one of them short.
C21_Witness ==
    /\ runNo = 2
    /\ pc = "done"
    /\ Len(file) >= 4
    /\ file = firstFile
    /\ \E i \in 1..Len(results) : results[i].dataLen = ShortPage

\* Query responses received so far: the probe's, the pages', the failed one.
Answered ==
    (IF ProbeReceived THEN 1 ELSE 0) + Len(results)
      + (IF failedStatus # 0 THEN 1 ELSE 0)

C23_OneAcquisitionPerRequest ==
    LET atStart == IF config.useOAuth /\ pc # "start" THEN 1 ELSE 0
        unsent  == IF error.kind = "AuthError" /\ writeStream # "null" THEN 1 ELSE 0
    IN  /\ tokenCalls = atStart + Len(requests) + unsent
        /\ plannerReturned => tokenCalls - atStart = Len(FetchRequests) + 1

\* A run of eleven offset-fetches returned after twelve acquisitions.
C23_Witness ==
    /\ plannerReturned /\ ~config.useOAuth
    /\ Len(FetchRequests) = 11 /\ tokenCalls = 12

(***************************************************************************)
(* C24.  A call sends one request and is answered once.  A status outside  *)
(* 200..299 fails the call with a QueryError carrying that status and no   *)
(* request follows it; a success status raises no QueryError and the       *)
(* response is the one the planner holds.                                  *)
(***************************************************************************)
C24_OneRequestNoRetry ==
    /\ Len(requests) <= Answered + 1
    /\ (lastStatus # 0 /\ (lastStatus < 200 \/ lastStatus > 299)) =>
         /\ pc = "failed"
         /\ error = [kind |-> "QueryError", status |-> lastStatus]
         /\ failedStatus = lastStatus
         /\ Len(requests) = Answered
    /\ (lastStatus >= 200 /\ lastStatus <= 299) =>
         /\ error.kind # "QueryError"
         /\ failedStatus = 0
         /\ ProbeReceived
         /\ Len(requests) - (IF inFlight THEN 1 ELSE 0) = 1 + Len(results)

\* The second offset-fetch was answered 500 and the run failed with it.
C24_Witness ==
    /\ lastStatus = 500 /\ pc = "failed" /\ Len(FetchRequests) = 2
    /\ Len(results) = 1 /\ error.status = 500

(***************************************************************************)
(* C27.  As claimed: the batch size follows the total row count: 100000    *)
(* rows per request (ten requests) from one million rows on, 25000 from    *)
(* 100000 rows on, and at most 10000 below 100000 rows.                    *)
(***************************************************************************)
C27_BatchSizeByTotal ==
    /\ \A i \in 1..Len(FetchRequests) :
         LET limit == FetchRequests[i].rowLimit
         IN  /\ totalRowCount >= 1000000 => limit = 100000
             /\ (totalRowCount >= 100000 /\ totalRowCount < 1000000) => limit <= 25000
             /\ totalRowCount < 100000 => limit <= 10000
    /\ (plannerReturned /\ totalRowCount = 1000000 /\ AllPagesFull) =>
         Len(FetchRequests) = 10

(***************************************************************************)
(* C28.  The loop pauses after offset-fetch i exactly when i is a multiple *)
(* of 10 and another offset-fetch follows: never after another fetch,      *)
(* never after the last one.                                               *)
(***************************************************************************)
C28_PauseEveryTenth ==
    LET continued == IF plannerReturned THEN Len(results) - 1 ELSE Len(results)
    IN  pausedAfter = {i \in 1..continued : i % 10 = 0}

\* Forty fetches: pauses after the 10th, 20th and 30th, none after the 40th.
C28_Witness ==
    /\ plannerReturned /\ Len(results) = 40
    /\ pausedAfter = {10, 20, 30}

(***************************************************************************)
(* C29.  As claimed: the loop always ends, because every offset-fetch      *)
(* either moves the offset forward or ends the loop: no offset-fetch is    *)
(* followed by another one at the same or a smaller offset.                *)
(***************************************************************************)
C29_EveryFetchAdvances ==
    \A i \in 2..Len(FetchRequests) :
        FetchRequests[i].offset > FetchRequests[i - 1].offset

\* The validation entry of the current token is younger than five minutes.
YoungEntry ==
    /\ currentToken # NoId
    /\ validationCache[CacheKey(currentToken)] # NoEntry
    /\ now - validationCache[CacheKey(currentToken)].timestamp < 300000

\* Caller c begins a call that asks isTokenValid about a token: a direct
\* call, or a getAccessToken that finds a token not yet expired.
AsksValidity(c) ==
    /\ authMode = "oauth"
    /\ call[c].pc = "idle" /\ call'[c].pc # "idle"
    /\ currentToken # NoId
    /\ call'[c].path = "isTokenValid" \/ now < tokenExpiry

(***************************************************************************)
(* C25.  isTokenValid probes exactly when the current token has no         *)
(* validation entry younger than 300000 ms.  With a younger entry it       *)
(* answers what the entry says, positive or negative, sends nothing and    *)
(* leaves the entry alone; the answer of a probe replaces the entry with   *)
(* one stamped at the time of the answer.                                  *)
(***************************************************************************)
C25_ValidationCachedFiveMinutes ==
    [][\A c \in Callers :
         /\ (AsksValidity(c) /\ YoungEntry) =>
              /\ probesSent' = probesSent
              /\ call'[c].pc \notin {"checking", "validating"}
              /\ call'[c].path = "isTokenValid" =>
                   /\ call'[c].pc = "answered"
                   /\ call'[c].valid = "ok" <=>
                        validationCache[CacheKey(currentToken)].isValid
                   /\ validationCache' = validationCache
              /\ call'[c].path # "isTokenValid" =>
                   (call'[c].pc = "returned" <=>
                        validationCache[CacheKey(currentToken)].isValid)
         /\ (AsksValidity(c) /\ ~YoungEntry) =>
              /\ probesSent' = probesSent + 1
              /\ call'[c].pc \in {"checking", "validating"}
         /\ (call[c].pc = "checking" /\ call'[c].pc = "answered") =>
              /\ validationCache'[CacheKey(call[c].tok)].timestamp = now
              /\ validationCache'[CacheKey(call[c].tok)].isValid
                   <=> call'[c].valid = "ok"
    ]_vars

\* isTokenValid is probing although the token has an entry: the entry is
\* exactly five minutes old.
C25_Witness ==
    /\ call[1].pc = "checking"
    /\ validationCache[CacheKey(call[1].tok)] # NoEntry
    /\ now - validationCache[CacheKey(call[1].tok)].timestamp = 300000

(***************************************************************************)
(* C26.  A successful exchange stores the time of its completion plus      *)
(* 7200000 ms as the expiry, whatever issued_at the response carries; a    *)
(* getAccessToken begun at or after that instant exchanges again, one      *)
(* begun before it does not take the token for expired.                    *)
(***************************************************************************)
C26_ExpiryTwoHoursAfterExchange ==
    [][\A c \in Callers :
         /\ (call[c].pc = "exchanging" /\ call'[c].pc = "returned") =>
              tokenExpiry' = now + 7200000
         /\ (authMode = "oauth" /\ call[c].pc = "idle" /\ call'[c].pc # "idle"
               /\ call'[c].path # "isTokenValid" /\ currentToken # NoId) =>
              IF now >= tokenExpiry
                THEN call'[c].pc = "exchanging" /\ probesSent' = probesSent
                ELSE call'[c].pc \in {"validating", "returned"}
    ]_vars

\* A call begun at the very instant of expiry has sent an exchange.
C26_Witness ==
    /\ call[1].pc = "exchanging"
    /\ call[1].startTok # NoId
    /\ call[1].startExpiry = 7200000
    /\ now = 7200000

(***************************************************************************)
(* C30.  Token and expiry change together: the token is absent exactly     *)
(* when the expiry is 0, an exchange that fails changes neither, and one   *)
(* that succeeds stores a token and a non-zero expiry in one step.         *)
(***************************************************************************)
C30_SlotNeverPartial ==
    [][/\ (currentToken' = NoId) <=> (tokenExpiry' = 0)
       /\ \A c \in Callers :
            /\ (call[c].pc = "exchanging" /\ call'[c].pc = "threw") =>
                 /\ currentToken' = currentToken
                 /\ tokenExpiry' = tokenExpiry
            /\ (call[c].pc = "exchanging" /\ call'[c].pc = "returned") =>
                 /\ currentToken' # NoId /\ currentToken' = call'[c].ret
                 /\ tokenExpiry' # 0
    ]_vars

\* One caller's exchange failed while the token another caller's exchange
\* stored is in place, whole.
C30_Witness ==
    /\ call[1].pc = "threw"
    /\ call[2].pc = "returned" /\ call[2].path = "exchange"
    /\ currentToken = call[2].ret
    /\ tokenExpiry = now + TokenLifetime

\* Groups of data lines in the file, and the batches they came from.
RowGroups == Cardinality({i \in 1..Len(file) : file[i].kind = "rows"})
BatchesInFile == {file[i].batch : i \in {j \in 1..Len(file) : file[j].kind = "rows"}}

\* The responses that carried rows.
NonEmptyBatches == {i \in 1..Len(results) : results[i].dataLen > 0}

\* Every batch that has rows is in the file, once.
AllBatchesInFile ==
    /\ BatchesInFile = NonEmptyBatches
    /\ RowGroups = Cardinality(NonEmptyBatches)

(***************************************************************************)
(* C31.  As claimed: when run() starts the storage upload every line the   *)
(* run wrote is on the disk, and a successful upload has read the whole    *)
(* file.                                                                   *)
(***************************************************************************)
C31_FlushedBeforeUpload ==
    /\ pc = "upload" => flushed = Len(file)
    /\ (uploads > 0 /\ ~uploadFailed) => uploaded = file

(***************************************************************************)
(* C32.  The storage upload is attempted once at most, when the planner    *)
(* has returned, every batch has been written and the writer has been      *)
(* closed, and only with gcsUploadEnabled and a bucket name; a run that    *)
(* failed, or that is configured otherwise, made no storage call.          *)
(***************************************************************************)
C32_UploadOnceAfterClose ==
    LET configured == config.gcsUploadEnabled /\ config.gcsBucketName = "bucket"
        written    == /\ plannerReturned
                      /\ writeStream = "ended"
                      /\ HeaderLines = 1
                      /\ AllBatchesInFile
    IN  /\ uploads <= 1
        /\ (uploads = 1 \/ pc = "upload") => (configured /\ written /\ error = NoError)
        /\ pc = "upload" => uploads = 0
        /\ pc = "failed" => uploads = 0
        /\ pc = "done" => (uploads = 1 <=> configured)

\* A run of several batches that made its one upload.
C32_Witness ==
    /\ pc = "done" /\ uploads = 1 /\ Len(results) >= 2
    /\ RowGroups = Len(results)
    /\ flushed = Len(file)

(***************************************************************************)
(* C33.  A run that wrote its file wrote the rows of the offset-fetches    *)
(* and no others: one group of data lines per offset-fetch response, as    *)
(* many data lines as the total row count, the row of the probe not among  *)
(* them.                                                                   *)
(***************************************************************************)
C33_ProbeRowNotWritten ==
    pc \in {"upload", "done"} =>
        /\ ProbeReceived
        /\ Len(results) = Len(FetchRequests)
        /\ AllBatchesInFile
        /\ DataLines = SumDataLen(results, 1)
        /\ DataLines = totalRowCount

\* A completed run of 25001 rows: two offset-fetches, 25001 data lines.
C33_Witness ==
    /\ pc = "done" /\ totalRowCount = 25001
    /\ Len(FetchRequests) = 2 /\ DataLines = 25001

(***************************************************************************)
(* C34.  getAccessToken of the token service never resolves with an        *)
(* absent token, however its calls interleave: a call that finds the token *)
(* cleared after its validation throws instead.                            *)
(***************************************************************************)
C34_NeverReturnsNull ==
    \A c \in Callers :
        (authMode = "oauth" /\ call[c].pc = "returned") => call[c].ret # NoId

\* A call whose validation succeeded found the token cleared by another
\* call, and threw.
C34_Witness ==
    /\ call[2].pc = "threw" /\ call[2].path = "cached" /\ call[2].valid = "ok"
    /\ call[1].pc = "exchanging"
    /\ currentToken = NoId

\* The next-page fetches (getNextBatch calls) sent so far, in order.
CursorFetches == SelectSeq(requests, LAMBDA r : r.kind = "getNextBatch")

\* Response k tells the reader to go on: not done, and a cursor to follow.
GoesOn(k) ==
    /\ results[k].done = FALSE
    /\ results[k].nextBatchId \in {"b1", "b2"}

(***************************************************************************)
(* C35.  getAllResults holds the responses in the order they were sent,    *)
(* the initial one first.  Next-page fetch k follows response k, which is  *)
(* not done and has a nextBatchId, and asks for that nextBatchId; the loop *)
(* fetches again after such a response and returns at the first response   *)
(* that is done or has no nextBatchId.                                     *)
(***************************************************************************)
C35_CursorFollowsLatestResponse ==
    /\ \A i \in 1..Len(results) : results[i].seq = i
    /\ \A k \in 1..Len(CursorFetches) :
         /\ k <= Len(results)
         /\ GoesOn(k)
         /\ CursorFetches[k].queryId = results[k].nextBatchId
    /\ pc = "cursorFetch" =>
         /\ Len(results) = Len(CursorFetches) + 1
         /\ GoesOn(Len(results))
    /\ pc = "returned" =>
         /\ Len(results) = Len(CursorFetches) + 1
         /\ ~GoesOn(Len(results))
         /\ \A k \in 1..(Len(results) - 1) : GoesOn(k)

\* Returned after three responses: cursors b1 then b2 were followed, and
\* the third response still had a nextBatchId but said done.
C35_Witness ==
    /\ pc = "returned" /\ Len(results) = 3
    /\ CursorFetches[1].queryId = "b1" /\ CursorFetches[2].queryId = "b2"
    /\ results[3].done /\ results[3].nextBatchId = "b1"

(***************************************************************************)
(* C36.  runScheduled completes normally whether run() returned or threw,  *)
(* so no callback of the schedule throws and the schedule goes on firing.  *)
(***************************************************************************)
C36_ScheduledRunSwallowsErrors ==
    /\ ScheduleAlive
    /\ \A r \in Runs :
         /\ job[r].pc = "ended" => job[r].sched = "completed"
         /\ job[r].sched # "none" => job[r].pc = "ended"

\* The first scheduled run threw, runScheduled ended, the second run began.
C36_Witness ==
    /\ job[1].pc = "ended" /\ job[1].result = "threw"
    /\ job[2].pc # "idle"

\* Runs that have the file at path p open for writing.
WritersOf(p) == {r \in Runs : job[r].pc = "fetching" /\ job[r].path = p}

(***************************************************************************)
(* C37.  As claimed: no two scheduled runs have the same output file open  *)
(* for writing at the same time.                                           *)
(***************************************************************************)
C37_OneWriterPerFile ==
    \A p \in Times : Cardinality(WritersOf(p)) <= 1

(***************************************************************************)
(* C38.  Before open() the writer writes nothing: writeHeaders and         *)
(* writeRow throw and leave the output empty, close() does nothing and     *)
(* leaves the writer unopened; a line is in the output only once open()    *)
(* has been called.                                                        *)
(***************************************************************************)
C38_NoWriteBeforeOpen ==
    [][/\ csvStream' = "null" =>
            /\ lines' = <<>>
            /\ csvPc' \in {"start", "threw", "closeSkipped"}
       /\ (csvStream = "null" /\ csvPc' \in {"threw", "wrote"}) =>
            /\ csvPc' = "threw"
            /\ lines' = lines
            /\ csvStream' = "null"
       /\ (csvStream = "null" /\ csvPc' \in {"closed", "closeSkipped"}) =>
            /\ csvPc' = "closeSkipped"
            /\ csvStream' = "null"
       /\ lines' # <<>> => csvStream' \in {"open", "ended"}
    ]_vars

\* A write on the unopened writer threw and the output is empty.
C38_Witness ==
    csvStream = "null" /\ csvPc = "threw" /\ lines = <<>>

====
